---- MODULE Spec2Model ----
(***************************************************************************)
(* The tool-calling core of the CLI agent: config.py (limits), tools.py    *)
(* (risk table, _truncate, handlers, execute_tool) and agent.py            *)
(* (confirm_tool_call, process_tool_calls, handle_user_message,            *)
(* trim_history, chat_loop).                                               *)
(*                                                                         *)
(* Texts are TLA+ strings, so lengths, prefixes and concatenations are     *)
(* computed on the very characters the code produces.  A representative    *)
(* subset of the 37 registered tools is modelled: one or two per risk      *)
(* tier and per way of producing output (through _truncate, without it,    *)
(* through _run_termux_cmd, through execute_run_command).                  *)
(***************************************************************************)
EXTENDS Integers, Sequences, FiniteSets, TLC

(***************************************************************************)
(* config.py                                                               *)
(***************************************************************************)
MAX_OUTPUT_CHARS == 15000

\* The source sets MAX_TOOL_ITERATIONS = 15 and MAX_HISTORY = 50; the model
\* keeps the names and the way the code uses them and scales the values.
MAX_TOOL_ITERATIONS == 2

MAX_HISTORY == 1

SYSTEM_PROMPT == "You are a powerful AI assistant running inside the user's terminal"

(***************************************************************************)
(* Bounds of the model                                                     *)
(***************************************************************************)
\* tool calls carried by one reply of the completion service
MaxCalls == 2

\* user turns of one session
MaxTurns == 2

\* tool calls the completion service asks for in one session
MaxSessionCalls == 3

\* answers at one confirmation prompt that are none of y, n and a
MaxReprompts == 1

\* the longest transcript handed to trim_history on its own is this much
\* longer than what it keeps
MaxExtra == 3

(***************************************************************************)
(* Text helpers                                                            *)
(***************************************************************************)
RECURSIVE Repeat(_, _)
\* s repeated n times
Repeat(s, n) ==
    IF n = 0 THEN ""
    ELSE LET h == Repeat(s, n \div 2)
         IN  h \o h \o (IF n % 2 = 1 THEN s ELSE "")

\* the first n characters of s (Python s[:n])
Prefix(s, n) == IF n >= Len(s) THEN s ELSE SubSeq(s, 1, n)

\* Python: sub in s
Contains(s, sub) ==
    \E i \in 1..(Len(s) - Len(sub) + 1) : SubSeq(s, i, i + Len(sub) - 1) = sub

\* Python: s.startswith(p)
StartsWith(s, p) == Len(s) >= Len(p) /\ SubSeq(s, 1, Len(p)) = p

RECURSIVE Join(_, _)
\* Python: sep.join(parts)
Join(parts, sep) ==
    IF Len(parts) = 0 THEN ""
    ELSE IF Len(parts) = 1 THEN parts[1]
    ELSE parts[1] \o sep \o Join(Tail(parts), sep)

\* the last element of a non-empty sequence
Last(s) == s[Len(s)]

(***************************************************************************)
(* tools.py: risk table                                                    *)
(***************************************************************************)
TOOL_RISK ==
    [ read_file      |-> "safe",
      write_file     |-> "moderate",
      list_directory |-> "safe",
      pkg_install    |-> "dangerous",
      termux_battery |-> "safe",
      delete_file    |-> "dangerous" ]

\* The empty dict that _get_tc_field returns where a tool call has no name.
\* A name is a text everywhere else, so the dict is held as a text no
\* completion service sends as a name.
NoName == "<dict {}>"

\* a slip: a name without an entry is taken for safe
get_tool_risk_DefaultSafe(name) ==
    IF name = NoName THEN "TypeError"
    ELSE IF name \in DOMAIN TOOL_RISK THEN TOOL_RISK[name] ELSE "safe"

\* TOOL_RISK.get(name, "moderate"): a dict is no key of a dict, the lookup
\* raises TypeError (unhashable type)
get_tool_risk(name) ==
    IF name = NoName THEN "TypeError"
    ELSE IF name \in DOMAIN TOOL_RISK THEN TOOL_RISK[name] ELSE "moderate"

(***************************************************************************)
(* tools.py: _truncate                                                     *)
(***************************************************************************)
\* the marker appended to a text of n characters that was cut
TruncationMarker(n) == "\n\n... [truncated, " \o ToString(n) \o " total chars]"

\* a slip: the marker reports the length of the cut text
_truncate_MarkerOfCut(text) ==
    IF Len(text) > MAX_OUTPUT_CHARS
    THEN SubSeq(text, 1, MAX_OUTPUT_CHARS) \o TruncationMarker(MAX_OUTPUT_CHARS)
    ELSE text

_truncate(text) ==
    IF Len(text) > MAX_OUTPUT_CHARS
    THEN SubSeq(text, 1, MAX_OUTPUT_CHARS) \o TruncationMarker(Len(text))
    ELSE text

(***************************************************************************)
(* The world a handler runs in.  One value of HandlerEnv is what the       *)
(* operating system answers to the one call a handler makes:               *)
(*   fail   "none" | "notfound" | "timeout" | "oserror" | "detect"          *)
(*          ("detect": the probe of _detect_pkg_manager fails with an       *)
(*          OSError other than FileNotFoundError)                          *)
(*   out    standard output of the command, or the content of the file     *)
(*   err    standard error of the command                                  *)
(*   rc     exit code of the command                                       *)
(*   items  the directory entries, sorted, each [name, isdir, size]        *)
(***************************************************************************)
MkEnv(fail, out, err, rc, items) ==
    [fail |-> fail, out |-> out, err |-> err, rc |-> rc, items |-> items]

\* str(e) of the OSError the world raises, and the traceback text of it
OSErrorText == "[Errno 13] Permission denied"

TracebackText ==
    "Traceback (most recent call last):\nPermissionError: " \o OSErrorText \o "\n"

(***************************************************************************)
(* What a handler call does: it returns a text (acted: its side effect     *)
(* took place) or it raises.                                               *)
(***************************************************************************)
Return(text, acted) == [kind |-> "return", text |-> text, acted |-> acted]

Raise(kind, text) == [kind |-> kind, text |-> text, acted |-> FALSE]

\* Python binds handler(**arguments): a required parameter that is not a key
\* of the mapping raises TypeError before the body runs; every handler ends
\* its parameter list with **_, which takes every other key.
MissingArgs(required, arguments) ==
    SelectSeq(required, LAMBDA k : k \notin DOMAIN arguments)

BindError(fn, required, arguments) ==
    Raise("TypeError",
          fn \o "() missing " \o ToString(Len(MissingArgs(required, arguments)))
             \o " required positional argument(s): "
             \o Join(MissingArgs(required, arguments), ", "))

IsSpace(c) == c \in {" ", "\n", "\t", "\r"}

RECURSIVE Strip(_)
\* Python: s.strip()
Strip(s) ==
    IF Len(s) = 0 THEN s
    ELSE IF IsSpace(SubSeq(s, 1, 1)) THEN Strip(SubSeq(s, 2, Len(s)))
    ELSE IF IsSpace(SubSeq(s, Len(s), Len(s))) THEN Strip(SubSeq(s, 1, Len(s) - 1))
    ELSE s

\* Python: str.lower on one character (ASCII letters)
lowerChar(c) ==
    CASE c = "A" -> "a" [] c = "B" -> "b" [] c = "C" -> "c" [] c = "D" -> "d"
      [] c = "E" -> "e" [] c = "F" -> "f" [] c = "G" -> "g" [] c = "H" -> "h"
      [] c = "I" -> "i" [] c = "J" -> "j" [] c = "K" -> "k" [] c = "L" -> "l"
      [] c = "M" -> "m" [] c = "N" -> "n" [] c = "O" -> "o" [] c = "P" -> "p"
      [] c = "Q" -> "q" [] c = "R" -> "r" [] c = "S" -> "s" [] c = "T" -> "t"
      [] c = "U" -> "u" [] c = "V" -> "v" [] c = "W" -> "w" [] c = "X" -> "x"
      [] c = "Y" -> "y" [] c = "Z" -> "z" [] OTHER -> c

RECURSIVE lower(_)
\* Python: s.lower()
lower(s) ==
    IF Len(s) = 0 THEN s
    ELSE lowerChar(SubSeq(s, 1, 1)) \o lower(SubSeq(s, 2, Len(s)))

\* Python: len(f.readlines()) for a file of content s
NumLines(s) ==
    Cardinality({i \in 1..Len(s) : SubSeq(s, i, i) = "\n"})
      + (IF Len(s) > 0 /\ SubSeq(s, Len(s), Len(s)) # "\n" THEN 1 ELSE 0)

\* sizes below 1024 only: the other units format a float
_fmt_size(size) == ToString(size) \o " B"

_run_termux_cmd(cmd, timeout, env) ==
    CASE env.fail = "none" ->
           LET o1 == Strip(env.out)
               o2 == IF env.err # "" THEN o1 \o "\nSTDERR: " \o Strip(env.err) ELSE o1
               o3 == IF env.rc # 0 THEN o2 \o "\nEXIT CODE: " \o ToString(env.rc) ELSE o2
           IN  IF o3 # "" THEN o3 ELSE "(no output)"
      [] env.fail = "notfound" ->
           "ERROR: '" \o cmd[1] \o "' not found. Install termux-api:\n"
             \o "  pkg install termux-api\n"
             \o "Also install the Termux:API app from F-Droid."
      [] env.fail = "timeout" ->
           "ERROR: Command timed out after " \o ToString(timeout) \o "s."
      [] OTHER -> "ERROR: " \o OSErrorText

execute_run_command(command, timeout, env) ==
    CASE env.fail = "none" ->
           LET p1 == IF env.out # "" THEN <<"STDOUT:\n" \o env.out>> ELSE <<>>
               p2 == IF env.err # "" THEN <<"STDERR:\n" \o env.err>> ELSE <<>>
               p3 == <<"EXIT CODE: " \o ToString(env.rc)>>
           IN  _truncate(Join(p1 \o p2 \o p3, "\n"))
      [] env.fail = "timeout" ->
           "ERROR: Command timed out after " \o ToString(timeout) \o " seconds."
      [] OTHER -> "ERROR: " \o OSErrorText

\* start_line and end_line are left at their defaults
execute_read_file(arguments, env) ==
    IF MissingArgs(<<"path">>, arguments) # <<>>
    THEN BindError("execute_read_file", <<"path">>, arguments)
    ELSE CASE env.fail = "none" ->
                Return(_truncate("[" \o ToString(NumLines(env.out)) \o " lines]\n"
                                   \o env.out), FALSE)
           [] env.fail = "notfound" ->
                Return("ERROR: File not found: " \o arguments.path, FALSE)
           [] OTHER -> Return("ERROR: " \o OSErrorText, FALSE)

execute_write_file(arguments, env) ==
    IF MissingArgs(<<"path", "content">>, arguments) # <<>>
    THEN BindError("execute_write_file", <<"path", "content">>, arguments)
    ELSE IF env.fail = "none"
         THEN Return("Successfully wrote " \o ToString(Len(arguments.content))
                       \o " chars to " \o arguments.path, TRUE)
         ELSE Return("ERROR: " \o OSErrorText, FALSE)

\* the branch recursive = False; "D" and "F" stand for the folder and the file
\* pictograph, one character each
ListingLine(item) ==
    IF item.isdir
    THEN "D " \o item.name \o "/"
    ELSE "F " \o item.name \o "  (" \o _fmt_size(item.size) \o ")"

execute_list_directory(arguments, env) ==
    CASE env.fail = "none" ->
           LET entries == [i \in 1..Len(env.items) |-> ListingLine(env.items[i])]
           IN  Return(IF entries # <<>> THEN Join(entries, "\n")
                                        ELSE "(empty directory)", FALSE)
      [] env.fail = "notfound" ->
           Return("ERROR: Directory not found: "
                    \o (IF "path" \in DOMAIN arguments THEN arguments.path ELSE "."),
                  FALSE)
      [] OTHER -> Return("ERROR: " \o OSErrorText, FALSE)

\* subprocess.run of the probe raises FileNotFoundError or TimeoutExpired
\* (both caught: the next manager is tried, "pkg" is the default) or another
\* OSError, which leaves the function
_detect_pkg_manager(env) ==
    IF env.fail = "detect" THEN Raise("Exception", TracebackText)
                           ELSE Return("pkg", FALSE)

execute_pkg_install(arguments, env) ==
    IF MissingArgs(<<"packages">>, arguments) # <<>>
    THEN BindError("execute_pkg_install", <<"packages">>, arguments)
    ELSE LET mgr == _detect_pkg_manager(env)
         IN  IF mgr.kind # "return" THEN mgr
             ELSE Return(execute_run_command(
                             mgr.text \o " install -y " \o arguments.packages, 120, env),
                         env.fail = "none")

execute_termux_battery(arguments, env) ==
    Return(_run_termux_cmd(<<"termux-battery-status">>, 30, env), FALSE)

\* the path names a file (the directory branches are left out)
execute_delete_file(arguments, env) ==
    IF MissingArgs(<<"path">>, arguments) # <<>>
    THEN BindError("execute_delete_file", <<"path">>, arguments)
    ELSE CASE env.fail = "none" -> Return("Deleted file: " \o arguments.path, TRUE)
           [] env.fail = "notfound" ->
                Return("ERROR: Path not found: " \o arguments.path, FALSE)
           [] OTHER -> Return("ERROR: " \o OSErrorText, FALSE)

(***************************************************************************)
(* tools.py: the dispatcher                                                *)
(***************************************************************************)
\* the keys of TOOL_HANDLERS, in the order of the table
HandlerNames ==
    <<"read_file", "write_file", "list_directory", "pkg_install",
      "delete_file", "termux_battery">>

\* the parameters without a default in the signature of a tool's handler
RequiredParams(name) ==
    CASE name = "read_file"      -> {"path"}
      [] name = "write_file"     -> {"path", "content"}
      [] name = "list_directory" -> {}
      [] name = "pkg_install"    -> {"packages"}
      [] name = "delete_file"    -> {"path"}
      [] name = "termux_battery" -> {}

\* the named parameters of that signature (the closing **_ left aside)
DeclaredParams(name) ==
    CASE name = "read_file"      -> {"path", "start_line", "end_line"}
      [] name = "write_file"     -> {"path", "content"}
      [] name = "list_directory" -> {"path", "recursive", "max_depth"}
      [] name = "pkg_install"    -> {"packages"}
      [] name = "delete_file"    -> {"path", "recursive"}
      [] name = "termux_battery" -> {}

TOOL_HANDLERS(name, arguments, env) ==
    CASE name = "read_file"      -> execute_read_file(arguments, env)
      [] name = "write_file"     -> execute_write_file(arguments, env)
      [] name = "list_directory" -> execute_list_directory(arguments, env)
      [] name = "pkg_install"    -> execute_pkg_install(arguments, env)
      [] name = "delete_file"    -> execute_delete_file(arguments, env)
      [] name = "termux_battery" -> execute_termux_battery(arguments, env)

\* What execute_tool does with one call: raised = FALSE and the text it
\* returns, or raised = TRUE when an exception leaves it; called: a handler was
\* invoked; acted: the handler's side effect took place; handler: how the
\* handler ended ("none" when no handler was invoked).
Outcome(raised, text, called, acted, handler) ==
    [raised |-> raised, text |-> text, called |-> called, acted |-> acted,
     handler |-> handler]

\* a slip: only TypeError is caught, any other exception leaves execute_tool
execute_tool_TypeErrorOnly(name, arguments, env) ==
    IF \A i \in 1..Len(HandlerNames) : HandlerNames[i] # name
    THEN Outcome(FALSE,
                 "ERROR: Unknown tool '" \o name \o "'. Available: "
                   \o Join(HandlerNames, ", "),
                 FALSE, FALSE, "none")
    ELSE LET r == TOOL_HANDLERS(name, arguments, env)
         IN  CASE r.kind = "return" ->
                    Outcome(FALSE, r.text, TRUE, r.acted, "return")
               [] r.kind = "TypeError" ->
                    Outcome(FALSE, "ERROR: Bad arguments for tool '" \o name \o "': "
                                     \o r.text, TRUE, FALSE, "TypeError")
               [] OTHER -> Outcome(TRUE, "", TRUE, FALSE, r.kind)

\* a slip: the table is indexed without a test, an unknown name raises KeyError
execute_tool_KeyError(name, arguments, env) ==
    IF \A i \in 1..Len(HandlerNames) : HandlerNames[i] # name
    THEN Outcome(TRUE, "", FALSE, FALSE, "none")
    ELSE LET r == TOOL_HANDLERS(name, arguments, env)
         IN  CASE r.kind = "return" ->
                    Outcome(FALSE, r.text, TRUE, r.acted, "return")
               [] r.kind = "TypeError" ->
                    Outcome(FALSE, "ERROR: Bad arguments for tool '" \o name \o "': "
                                     \o r.text, TRUE, FALSE, "TypeError")
               [] r.kind = "Exception" ->
                    Outcome(FALSE, "ERROR executing '" \o name \o "': " \o r.text,
                            TRUE, FALSE, "Exception")
               [] OTHER -> Outcome(TRUE, "", TRUE, FALSE, r.kind)

\* a slip: TypeError is not caught apart, the binding error leaves execute_tool
execute_tool_TypeErrorEscapes(name, arguments, env) ==
    IF \A i \in 1..Len(HandlerNames) : HandlerNames[i] # name
    THEN Outcome(FALSE,
                 "ERROR: Unknown tool '" \o name \o "'. Available: "
                   \o Join(HandlerNames, ", "),
                 FALSE, FALSE, "none")
    ELSE LET r == TOOL_HANDLERS(name, arguments, env)
         IN  CASE r.kind = "return" ->
                    Outcome(FALSE, r.text, TRUE, r.acted, "return")
               [] r.kind = "Exception" ->
                    Outcome(FALSE, "ERROR executing '" \o name \o "': " \o r.text,
                            TRUE, FALSE, "Exception")
               [] OTHER -> Outcome(TRUE, "", TRUE, FALSE, r.kind)

execute_tool(name, arguments, env) ==
    IF \A i \in 1..Len(HandlerNames) : HandlerNames[i] # name
    THEN Outcome(FALSE,
                 "ERROR: Unknown tool '" \o name \o "'. Available: "
                   \o Join(HandlerNames, ", "),
                 FALSE, FALSE, "none")
    ELSE LET r == TOOL_HANDLERS(name, arguments, env)
         IN  CASE r.kind = "return" ->
                    Outcome(FALSE, r.text, TRUE, r.acted, "return")
               [] r.kind = "TypeError" ->
                    Outcome(FALSE, "ERROR: Bad arguments for tool '" \o name \o "': "
                                     \o r.text, TRUE, FALSE, "TypeError")
               [] r.kind = "Exception" ->
                    Outcome(FALSE, "ERROR executing '" \o name \o "': " \o r.text,
                            TRUE, FALSE, "Exception")
               [] OTHER -> Outcome(TRUE, "", TRUE, FALSE, r.kind)

(***************************************************************************)
(* Replies of the completion service                                       *)
(*                                                                         *)
(* A tool call is [function |-> [name, arguments]]; the arguments arrive   *)
(* as a mapping ([type |-> "dict"]), as a JSON text ([type |-> "str"]) or  *)
(* as another value ([type |-> "other"]).                                  *)
(***************************************************************************)
GoodArgs == [path |-> "f.txt", content |-> "c", packages |-> "vim"]

GoodArgsText == "{\"path\": \"f.txt\", \"content\": \"c\", \"packages\": \"vim\"}"

NoArgs == [k \in {} |-> ""]

DictPayload(m) == [type |-> "dict", value |-> m]

StrPayload(s) == [type |-> "str", value |-> s]

\* a payload that is neither a text nor a mapping: the value is held as the
\* tuple of its Python repr
OtherPayload(repr) == [type |-> "other", value |-> <<repr>>]

\* a tool call as the client library delivers it: an object with the
\* attribute function, which has the attributes name and arguments
ToolCall(name, payload) ==
    [shape |-> "object", function |-> [name |-> name, arguments |-> payload]]

\* a tool call delivered as a mapping whose function entry has no name
CallWithoutName(payload) ==
    [shape |-> "dict", function |-> [arguments |-> payload]]

\* a tool call delivered as an object without the attribute function
CallWithoutFunction == [shape |-> "object"]

\* _get_tc_field(tc, 'function', key): the value found, or {} where the
\* function entry or the key is missing; a name found is held as a text
\* payload
_get_tc_field(tc, key) ==
    IF "function" \notin DOMAIN tc THEN DictPayload(NoArgs)
    ELSE IF key \notin DOMAIN tc.function THEN DictPayload(NoArgs)
    ELSE IF key = "name" THEN StrPayload(tc.function.name)
    ELSE tc.function.arguments

\* func_name of a call: the name, or the dict {}
NameOf(tc) ==
    LET v == _get_tc_field(tc, "name")
    IN  IF v.type = "str" THEN v.value ELSE NoName

\* func_args of a call as delivered
ArgumentsOf(tc) == _get_tc_field(tc, "arguments")

\* json.loads on the JSON texts the model's replies carry: a mapping for an
\* object, another value for a text that is JSON but no object, and
\* JSONDecodeError for a text that is not JSON
json_loads(s) ==
    CASE s = GoodArgsText -> DictPayload(GoodArgs)
      [] s = "{}"  -> DictPayload(NoArgs)
      [] s = "[1]" -> OtherPayload("[1]")
      [] OTHER     -> [type |-> "JSONDecodeError", value |-> NoArgs]

\* a slip: the test isinstance(func_args, dict) is left out
ParseArguments_NoDictTest(payload) ==
    LET a1 == IF payload.type = "str"
              THEN LET j == json_loads(payload.value)
                   IN  IF j.type = "JSONDecodeError" THEN DictPayload(NoArgs) ELSE j
              ELSE payload
    IN  a1.value

\* process_tool_calls, the arguments of one call as confirmed and dispatched
ParseArguments(payload) ==
    LET a1 == IF payload.type = "str"
              THEN LET j == json_loads(payload.value)
                   IN  IF j.type = "JSONDecodeError" THEN DictPayload(NoArgs) ELSE j
              ELSE payload
    IN  IF a1.type # "dict" THEN NoArgs ELSE a1.value

\* the calls the modelled completion service asks for
LoopCalls ==
    { ToolCall("read_file", DictPayload(GoodArgs)),
      ToolCall("write_file", StrPayload("{bad")),
      ToolCall("list_directory", StrPayload("[1]")),
      ToolCall("pkg_install", StrPayload(GoodArgsText)),
      ToolCall("no_such_tool", OtherPayload("None")),
      CallWithoutName(DictPayload(GoodArgs)),
      CallWithoutFunction }

Batches == UNION { [1..n -> LoopCalls] : n \in 1..MaxCalls }

\* a reply is a text without tool calls, or tool calls with an empty text
Replies ==
    { [content |-> c, tool_calls |-> <<>>] : c \in {"", "Done."} }
      \cup { [content |-> "", tool_calls |-> b] : b \in Batches }

NoResponse == [content |-> "", tool_calls |-> <<>>]

\* what the operating system answers to the handlers of the loop
LoopEnvs(name) ==
    IF name = "pkg_install"
    THEN { MkEnv("none", "done\n", "", 0, <<>>), MkEnv("detect", "", "", 0, <<>>) }
    ELSE { MkEnv("none", "data\n", "", 0, <<>>) }

UserTexts == {"list files"}

\* the lines the user types at the confirmation prompt
PromptInputs == {"y", "YES", "n", " No ", "a", "Always", "", "yes please"}

(***************************************************************************)
(* agent.py: messages                                                      *)
(***************************************************************************)
Message(role, content, tool_calls) ==
    [role |-> role, content |-> content, tool_calls |-> tool_calls]

SystemMessage == Message("system", SYSTEM_PROMPT, <<>>)

_serialize_tool_calls(tool_calls) ==
    [i \in 1..Len(tool_calls) |->
        LET tc == tool_calls[i]
        IN  IF tc.shape = "object" /\ "function" \in DOMAIN tc
            THEN [function |->
                    [name      |-> IF "name" \in DOMAIN tc.function
                                   THEN tc.function.name ELSE "",
                     arguments |-> IF "arguments" \in DOMAIN tc.function
                                   THEN tc.function.arguments
                                   ELSE DictPayload(NoArgs)]]
            ELSE IF tc.shape = "dict" THEN tc
            ELSE NoArgs]

\* a slip: the whole list is cut to its tail, the system message included
trim_history_TailOnly(msgs) ==
    IF Len(msgs) <= MAX_HISTORY * 2 + 1
    THEN msgs
    ELSE LET keep == MAX_HISTORY * 2 + 1
         IN  SubSeq(msgs, Len(msgs) - keep + 1, Len(msgs))

\* a slip: the window is taken after element 0, not at the end
trim_history_HeadWindow(msgs) ==
    IF Len(msgs) <= MAX_HISTORY * 2 + 1
    THEN msgs
    ELSE LET keep == MAX_HISTORY * 2
         IN  SubSeq(msgs, 1, keep + 1)

trim_history(msgs) ==
    IF Len(msgs) <= MAX_HISTORY * 2 + 1
    THEN msgs
    ELSE LET keep == MAX_HISTORY * 2
         IN  <<msgs[1]>> \o SubSeq(msgs, Len(msgs) - keep + 1, Len(msgs))

DeniedText == "Tool call was denied by the user."

CapText == "(Reached maximum tool iterations. The task may be incomplete.)"

\* str(e) of the exception a failed request raises
RequestErrorText == "Connection refused"

IterationErrorText == "Error during tool iteration: " \o RequestErrorText

(***************************************************************************)
(* agent.py: confirm_tool_call, up to the prompt                           *)
(***************************************************************************)
\* TRUE: the call is approved without a prompt; FALSE: the panel is shown and
\* the prompt is read
\* a slip: the flag approves every tier
ApprovedWithoutPrompt_AnyTier(name, auto) ==
    LET risk == get_tool_risk(name)
    IN  IF risk = "safe" THEN TRUE
        ELSE IF auto THEN TRUE
        ELSE FALSE

\* a slip: the safe tier is gated by the flag like the moderate tier
ApprovedWithoutPrompt_SafeGated(name, auto) ==
    LET risk == get_tool_risk(name)
    IN  IF auto /\ risk \in {"safe", "moderate"} THEN TRUE
        ELSE FALSE

\* a slip: the flag is not read
ApprovedWithoutPrompt_NoFlag(name, auto) ==
    LET risk == get_tool_risk(name)
    IN  IF risk = "safe" THEN TRUE
        ELSE FALSE

ApprovedWithoutPrompt(name, auto) ==
    LET risk == get_tool_risk(name)
    IN  IF risk = "safe" THEN TRUE
        ELSE IF auto /\ risk = "moderate" THEN TRUE
        ELSE FALSE

\* a slip: the loop test lets one more batch through
WithinCap_OneMore(it) == it <= MAX_TOOL_ITERATIONS

\* process_tool_calls, the test of its while loop
WithinCap(it) == it < MAX_TOOL_ITERATIONS

\* a slip: n and no are taken for an approval
PromptDecision_DenyIsAllow(choice) ==
    IF choice \in {"y", "yes"} THEN "allow"
    ELSE IF choice \in {"n", "no"} THEN "allow"
    ELSE IF choice \in {"a", "always"} THEN "always"
    ELSE "again"

\* a slip: a and always approve the call without setting the flag
PromptDecision_AlwaysIsOnce(choice) ==
    IF choice \in {"y", "yes"} THEN "allow"
    ELSE IF choice \in {"n", "no"} THEN "deny"
    ELSE IF choice \in {"a", "always"} THEN "allow"
    ELSE "again"

\* a slip: the empty answer (Enter alone) is taken as the default, allow
PromptDecision_EmptyIsAllow(choice) ==
    IF choice \in {"", "y", "yes"} THEN "allow"
    ELSE IF choice \in {"n", "no"} THEN "deny"
    ELSE IF choice \in {"a", "always"} THEN "always"
    ELSE "again"

\* a slip: an answer that is none of y, n and a counts as a denial
PromptDecision_OtherIsDeny(choice) ==
    IF choice \in {"y", "yes"} THEN "allow"
    ELSE IF choice \in {"a", "always"} THEN "always"
    ELSE "deny"

\* the reading of one answer at the prompt
PromptDecision(choice) ==
    IF choice \in {"y", "yes"} THEN "allow"
    ELSE IF choice \in {"n", "no"} THEN "deny"
    ELSE IF choice \in {"a", "always"} THEN "always"
    ELSE "again"

(***************************************************************************)
(* State                                                                   *)
(*                                                                         *)
(* messages      the transcript (chat_loop's messages)                     *)
(* auto_approve  the global flag                                           *)
(* pc            where the session is:                                     *)
(*                 "input"     chat_loop reads the user's line             *)
(*                 "chat"      handle_user_message waits in client.chat    *)
(*                 "inspect"   process_tool_calls, at the loop test        *)
(*                 "confirm"   entering confirm_tool_call for call tc_i    *)
(*                 "prompt"    confirm_tool_call waits in console.input    *)
(*                 "execute"   the call was approved, at execute_tool      *)
(*                 "tool_chat" process_tool_calls waits in client.chat     *)
(* response      the reply received last                                   *)
(* iteration     process_tool_calls' counter                               *)
(* tc_i          the position in response.tool_calls of the call in hand   *)
(* Observers, which no action reads to decide anything:                    *)
(* turns         the user turns started                                    *)
(* calls_seen    the tool calls the service has asked for in the session   *)
(* requests      the requests sent to the completion service in the turn   *)
(* prompted      the panel and prompt were shown for the call in hand      *)
(* answer        "allow", "always" or "deny" given for the call in hand    *)
(* auto_seen     auto_approve as confirm_tool_call read it for that call   *)
(* reprompts     the times "Enter y, n, or a" was printed for that call    *)
(* ended         how the last turn ended ("" while one runs): "plain",     *)
(*               "cap", "iter_error", "first_error", "interrupt", "raised" *)
(* final_text    what process_tool_calls returned in that turn             *)
(* all_tool_replies  every reply of the turn carried a tool call           *)
(* probe         the call and the result of a function applied on its own  *)
(*               (SpecTruncate, SpecExec); NoProbe in a session            *)
(***************************************************************************)
VARIABLES messages, auto_approve, pc, response, iteration, tc_i,
          turns, calls_seen, requests, prompted, answer, auto_seen, reprompts,
          ended, final_text, all_tool_replies, probe

vars == <<messages, auto_approve, pc, response, iteration, tc_i,
          turns, calls_seen, requests, prompted, answer, auto_seen, reprompts,
          ended, final_text, all_tool_replies, probe>>

session_vars == <<turns, calls_seen, probe>>

NoProbe == [op |-> "none"]

call_vars == <<prompted, answer, auto_seen, reprompts>>

turn_vars == <<ended, final_text, all_tool_replies>>

\* a slip: the batch is walked from its last call to its first
CurCall_FromTheEnd == response.tool_calls[Len(response.tool_calls) + 1 - tc_i]

\* the call in hand
CurCall == response.tool_calls[tc_i]

func_name == NameOf(CurCall)

func_args == ParseArguments(ArgumentsOf(CurCall))

\* main: auto_approve = args.yolo; chat_loop: messages = [system message]
Init ==
    /\ messages = <<SystemMessage>>
    /\ auto_approve \in BOOLEAN
    /\ pc = "input"
    /\ response = NoResponse
    /\ iteration = 0
    /\ tc_i = 0
    /\ turns = 0
    /\ calls_seen = 0
    /\ requests = 0
    /\ prompted = FALSE
    /\ answer = ""
    /\ auto_seen = FALSE
    /\ reprompts = 0
    /\ ended = ""
    /\ final_text = ""
    /\ all_tool_replies = TRUE
    /\ probe = NoProbe

(***************************************************************************)
(* chat_loop                                                               *)
(***************************************************************************)
\* a line that is no slash command: handle_user_message up to client.chat
UserTurn(text) ==
    /\ pc = "input"
    /\ turns < MaxTurns
    /\ messages' = trim_history(Append(messages, Message("user", text, <<>>)))
    /\ pc' = "chat"
    /\ turns' = turns + 1
    /\ requests' = 1
    /\ ended' = ""
    /\ final_text' = ""
    /\ all_tool_replies' = TRUE
    /\ UNCHANGED <<auto_approve, response, iteration, tc_i, calls_seen, call_vars,
                   probe>>

\* a slip: /clear starts the session over, the flag included
SlashClear_ResetsFlag ==
    /\ pc = "input"
    /\ messages' = <<SystemMessage>>
    /\ auto_approve' = FALSE
    /\ UNCHANGED <<pc, response, iteration, tc_i, session_vars,
                   requests, call_vars, turn_vars>>

\* /clear: messages = [system message]
SlashClear ==
    /\ pc = "input"
    /\ messages' = <<SystemMessage>>
    /\ UNCHANGED <<auto_approve, pc, response, iteration, tc_i, session_vars,
                   requests, call_vars, turn_vars>>

SlashYolo ==
    /\ pc = "input"
    /\ auto_approve' = ~auto_approve
    /\ UNCHANGED <<messages, pc, response, iteration, tc_i, session_vars,
                   requests, call_vars, turn_vars>>

\* /history, /help, /tools, /model, an unknown command, an empty line
SlashOther ==
    /\ pc = "input"
    /\ UNCHANGED vars

\* handle_user_message returns: its locals and those of process_tool_calls
\* (response, the position in the batch) are gone; how tells how it ended
EndTurn(how) ==
    /\ ended' = how
    /\ pc' = "input"
    /\ response' = NoResponse
    /\ tc_i' = 0
    /\ prompted' = FALSE
    /\ answer' = ""
    /\ auto_seen' = FALSE
    /\ reprompts' = 0

\* a slip: the answer is appended without the test of its emptiness
Finish_AlwaysAppends(text, how) ==
    /\ messages' = Append(messages, Message("assistant", text, <<>>))
    /\ final_text' = text
    /\ EndTurn(how)

\* process_tool_calls returns text: handle_user_message appends it unless empty
Finish(text, how) ==
    /\ messages' = IF text # "" THEN Append(messages, Message("assistant", text, <<>>))
                                ELSE messages
    /\ final_text' = text
    /\ EndTurn(how)

(***************************************************************************)
(* handle_user_message: the first request of the turn                      *)
(***************************************************************************)
\* a slip: the counter is kept from the turn before
ChatReply_KeepsCount(r) ==
    /\ pc = "chat"
    /\ calls_seen + Len(r.tool_calls) <= MaxSessionCalls
    /\ calls_seen' = calls_seen + Len(r.tool_calls)
    /\ response' = r
    /\ all_tool_replies' = (r.tool_calls # <<>>)
    /\ pc' = "inspect"
    /\ UNCHANGED <<messages, auto_approve, iteration, tc_i, turns, requests,
                   call_vars, ended, final_text, probe>>

\* the reply arrives and process_tool_calls starts (iteration = 0)
ChatReply(r) ==
    /\ pc = "chat"
    /\ calls_seen + Len(r.tool_calls) <= MaxSessionCalls
    /\ calls_seen' = calls_seen + Len(r.tool_calls)
    /\ response' = r
    /\ iteration' = 0
    /\ all_tool_replies' = (r.tool_calls # <<>>)
    /\ pc' = "inspect"
    /\ UNCHANGED <<messages, auto_approve, tc_i, turns, requests, call_vars,
                   ended, final_text, probe>>

\* client.chat raises: except Exception prints the error
ChatFail ==
    /\ pc = "chat"
    /\ EndTurn("first_error")
    /\ UNCHANGED <<messages, auto_approve, iteration, session_vars, requests,
                   final_text, all_tool_replies>>

\* KeyboardInterrupt while waiting for the reply
ChatInterrupt ==
    /\ pc = "chat"
    /\ EndTurn("interrupt")
    /\ UNCHANGED <<messages, auto_approve, iteration, session_vars, requests,
                   final_text, all_tool_replies>>

(***************************************************************************)
(* process_tool_calls                                                      *)
(***************************************************************************)
\* the reply carries no tool call: its content is returned
InspectPlain ==
    /\ pc = "inspect"
    /\ WithinCap(iteration)
    /\ response.tool_calls = <<>>
    /\ Finish(response.content, "plain")
    /\ UNCHANGED <<auto_approve, iteration, session_vars, requests,
                   all_tool_replies>>

\* the reply carries tool calls: the assistant message is appended
InspectTools ==
    /\ pc = "inspect"
    /\ WithinCap(iteration)
    /\ response.tool_calls # <<>>
    /\ messages' = Append(messages,
                          Message("assistant", response.content,
                                  _serialize_tool_calls(response.tool_calls)))
    /\ tc_i' = 1
    /\ pc' = "confirm"
    /\ UNCHANGED <<auto_approve, response, iteration, session_vars, requests,
                   call_vars, turn_vars>>

\* the loop test fails: the advisory text is returned
CapReached ==
    /\ pc = "inspect"
    /\ ~WithinCap(iteration)
    /\ Finish(CapText, "cap")
    /\ UNCHANGED <<auto_approve, iteration, session_vars, requests,
                   all_tool_replies>>

\* confirm_tool_call up to its first return or to the prompt; where
\* get_tool_risk raises, the exception leaves confirm_tool_call and
\* process_tool_calls and is caught and printed in handle_user_message
Confirm ==
    /\ pc = "confirm"
    /\ IF get_tool_risk(func_name) = "TypeError"
       THEN /\ EndTurn("raised")
            /\ UNCHANGED <<messages, auto_approve, iteration, session_vars,
                           requests, final_text, all_tool_replies>>
       ELSE /\ auto_seen' = auto_approve
            /\ reprompts' = 0
            /\ answer' = ""
            /\ IF ApprovedWithoutPrompt(func_name, auto_approve)
               THEN pc' = "execute" /\ prompted' = FALSE
               ELSE pc' = "prompt" /\ prompted' = TRUE
            /\ UNCHANGED <<messages, auto_approve, response, iteration, tc_i,
                           session_vars, requests, turn_vars>>

\* the tool message of the call in hand is appended: the next call of the
\* batch, or iteration += 1 and the next request
Advance(text) ==
    /\ messages' = Append(messages, Message("tool", text, <<>>))
    /\ prompted' = FALSE
    /\ answer' = ""
    /\ auto_seen' = FALSE
    /\ reprompts' = 0
    /\ IF tc_i < Len(response.tool_calls)
       THEN /\ tc_i' = tc_i + 1
            /\ pc' = "confirm"
            /\ UNCHANGED <<iteration, requests>>
       ELSE /\ tc_i' = 0
            /\ iteration' = iteration + 1
            /\ requests' = requests + 1
            /\ pc' = "tool_chat"

\* choice = console.input(...).strip().lower(), for each line of PromptInputs
ChoiceOf == [line \in PromptInputs |-> lower(Strip(line))]

\* one line typed at the prompt
PromptAnswer(line) ==
    /\ pc = "prompt"
    /\ LET choice == ChoiceOf[line]
           d == PromptDecision(choice)
       IN  CASE d = "allow" ->
                  /\ answer' = "allow"
                  /\ pc' = "execute"
                  /\ reprompts' = 0
                  /\ UNCHANGED <<messages, auto_approve, iteration, tc_i, requests,
                                 prompted, auto_seen>>
             [] d = "always" ->
                  /\ auto_approve' = TRUE
                  /\ answer' = "always"
                  /\ pc' = "execute"
                  /\ reprompts' = 0
                  /\ UNCHANGED <<messages, iteration, tc_i, requests, prompted,
                                 auto_seen>>
             [] d = "deny" ->
                  /\ Advance(DeniedText)
                  /\ UNCHANGED auto_approve
             [] OTHER ->
                  /\ reprompts < MaxReprompts
                  /\ reprompts' = reprompts + 1
                  /\ UNCHANGED <<messages, auto_approve, pc, iteration, tc_i, requests,
                                 prompted, answer, auto_seen>>
    /\ UNCHANGED <<response, session_vars, turn_vars>>

\* a slip: confirm_tool_call catches the interrupt and returns False
PromptInterrupt_Denies ==
    /\ pc = "prompt"
    /\ Advance(DeniedText)
    /\ UNCHANGED <<auto_approve, response, session_vars, turn_vars>>

\* KeyboardInterrupt or EOFError at the prompt: both leave process_tool_calls
\* and are caught in handle_user_message
PromptInterrupt ==
    /\ pc = "prompt"
    /\ EndTurn("interrupt")
    /\ UNCHANGED <<messages, auto_approve, iteration, session_vars, requests,
                   final_text, all_tool_replies>>

\* execute_tool on the approved call
Execute ==
    /\ pc = "execute"
    /\ \E env \in LoopEnvs(func_name) :
         LET o == execute_tool(func_name, func_args, env)
         IN  IF o.raised
             THEN /\ EndTurn("raised")
                  /\ UNCHANGED <<messages, iteration, requests>>
             ELSE /\ Advance(o.text)
                  /\ UNCHANGED <<response, ended>>
    /\ UNCHANGED <<auto_approve, session_vars, final_text, all_tool_replies>>

\* the reply to a follow-up request arrives
ToolChatReply(r) ==
    /\ pc = "tool_chat"
    /\ calls_seen + Len(r.tool_calls) <= MaxSessionCalls
    /\ calls_seen' = calls_seen + Len(r.tool_calls)
    /\ response' = r
    /\ all_tool_replies' = (all_tool_replies /\ r.tool_calls # <<>>)
    /\ pc' = "inspect"
    /\ UNCHANGED <<messages, auto_approve, iteration, tc_i, turns, requests,
                   call_vars, ended, final_text, probe>>

\* a slip: the failed request is sent again
ToolChatFail_Retries ==
    /\ pc = "tool_chat"
    /\ requests < MAX_TOOL_ITERATIONS + 2
    /\ requests' = requests + 1
    /\ UNCHANGED <<messages, auto_approve, pc, response, iteration, tc_i,
                   session_vars, call_vars, turn_vars>>

\* client.chat raises in the loop: the error text is returned
ToolChatFail ==
    /\ pc = "tool_chat"
    /\ Finish(IterationErrorText, "iter_error")
    /\ UNCHANGED <<auto_approve, iteration, session_vars, requests,
                   all_tool_replies>>

\* KeyboardInterrupt while waiting for the reply
ToolChatInterrupt ==
    /\ pc = "tool_chat"
    /\ EndTurn("interrupt")
    /\ UNCHANGED <<messages, auto_approve, iteration, session_vars, requests,
                   final_text, all_tool_replies>>

Next ==
    \/ \E text \in UserTexts : UserTurn(text)
    \/ SlashClear
    \/ SlashYolo
    \/ SlashOther
    \/ \E r \in Replies : ChatReply(r)
    \/ ChatFail
    \/ ChatInterrupt
    \/ InspectPlain
    \/ InspectTools
    \/ CapReached
    \/ Confirm
    \/ \E choice \in PromptInputs : PromptAnswer(choice)
    \/ PromptInterrupt
    \/ Execute
    \/ \E r \in Replies : ToolChatReply(r)
    \/ ToolChatFail
    \/ ToolChatInterrupt

Spec == Init /\ [][Next]_vars

(***************************************************************************)
(* The session of a program started with --yolo                            *)
(***************************************************************************)
\* main: auto_approve = args.yolo, with --yolo on the command line
InitYolo ==
    /\ Init
    /\ auto_approve = TRUE

SpecYolo == InitYolo /\ [][Next]_vars

(***************************************************************************)
(* _truncate on its own                                                    *)
(***************************************************************************)
\* the first n characters of pattern repeated
Fill(pattern, n) == Prefix(Repeat(pattern, n), n)

TruncateLengths ==
    {0, 1, 2, MAX_OUTPUT_CHARS - 1, MAX_OUTPUT_CHARS, MAX_OUTPUT_CHARS + 1,
     MAX_OUTPUT_CHARS + 2, MAX_OUTPUT_CHARS + 40, 99999, 100000, 100001}

TruncatePatterns == {"a", "ab", "abc", "line\n", "0123456789", " x"}

TruncateInputs == { Fill(p, n) : p \in TruncatePatterns, n \in TruncateLengths }

\* the session is not running: every session variable as Init leaves it
SessionIdle ==
    /\ messages = <<SystemMessage>>
    /\ auto_approve = FALSE
    /\ pc = "probe"
    /\ response = NoResponse
    /\ iteration = 0
    /\ tc_i = 0
    /\ turns = 0
    /\ calls_seen = 0
    /\ requests = 0
    /\ prompted = FALSE
    /\ answer = ""
    /\ auto_seen = FALSE
    /\ reprompts = 0
    /\ ended = ""
    /\ final_text = ""
    /\ all_tool_replies = TRUE

session_all == <<messages, auto_approve, pc, response, iteration, tc_i, turns,
                 calls_seen, requests, prompted, answer, auto_seen, reprompts,
                 ended,
                 final_text, all_tool_replies>>

InitTruncate ==
    /\ SessionIdle
    /\ probe \in { [op |-> "_truncate", text |-> t, done |-> FALSE, result |-> ""] :
                     t \in TruncateInputs }

TruncateCall ==
    /\ probe.op = "_truncate"
    /\ ~probe.done
    /\ probe' = [probe EXCEPT !.done = TRUE, !.result = _truncate(probe.text)]
    /\ UNCHANGED session_all

NextTruncate == TruncateCall

SpecTruncate == InitTruncate /\ [][NextTruncate]_vars

(***************************************************************************)
(* execute_tool on its own                                                 *)
(***************************************************************************)
\* longer than MAX_OUTPUT_CHARS plus any marker
LongText == Fill("0123456789", MAX_OUTPUT_CHARS + 1000)

\* 60 sorted file names of 253 characters: a listing of more than
\* MAX_OUTPUT_CHARS characters
LongListing ==
    [i \in 1..60 |-> [name  |-> Repeat("n", 250) \o ToString(100 + i),
                      isdir |-> FALSE, size |-> 10 * i]]

ShortListing ==
    << [name |-> "a.txt", isdir |-> FALSE, size |-> 12],
       [name |-> "src", isdir |-> TRUE, size |-> 0] >>

ExecEnvs ==
    { MkEnv("none", out, "", rc, items) :
        out \in {"", "ok\n", LongText}, rc \in {0, 1},
        items \in {<<>>, ShortListing, LongListing} }
      \cup { MkEnv(f, "", "", 0, <<>>) : f \in {"notfound", "timeout", "oserror", "detect"} }

ExecNames ==
    { HandlerNames[i] : i \in 1..Len(HandlerNames) } \cup {"no_such_tool", "rm"}

ExecArguments ==
    { GoodArgs, NoArgs, [path |-> "f.txt"], [path |-> "f.txt", bogus |-> "1"] }

InitExec ==
    /\ SessionIdle
    /\ probe \in { [op |-> "execute_tool", name |-> n, arguments |-> a, env |-> e,
                    done |-> FALSE, outcome |-> Outcome(FALSE, "", FALSE, FALSE, "none")] :
                     n \in ExecNames, a \in ExecArguments, e \in ExecEnvs }

ExecCall ==
    /\ probe.op = "execute_tool"
    /\ ~probe.done
    /\ probe' = [probe EXCEPT !.done = TRUE,
                              !.outcome = execute_tool(probe.name, probe.arguments,
                                                       probe.env)]
    /\ UNCHANGED session_all

NextExec == ExecCall

SpecExec == InitExec /\ [][NextExec]_vars

(***************************************************************************)
(* trim_history on its own                                                 *)
(***************************************************************************)
\* the messages a transcript holds after the system message
TrimMessages ==
    { Message("user", "u", <<>>), Message("assistant", "a", <<>>),
      Message("tool", "t", <<>>) }

\* the transcripts of chat_loop: the system message, then up to MaxExtra
\* messages more than trim_history keeps
TrimInputs ==
    { <<SystemMessage>> \o tail :
        tail \in UNION { [1..n -> TrimMessages] : n \in 0..(MAX_HISTORY * 2 + MaxExtra) } }

InitTrim ==
    /\ messages \in TrimInputs
    /\ probe = [op |-> "trim_history", original |-> messages, calls |-> 0,
                first |-> messages]
    /\ auto_approve = FALSE
    /\ pc = "probe"
    /\ response = NoResponse
    /\ iteration = 0
    /\ tc_i = 0
    /\ turns = 0
    /\ calls_seen = 0
    /\ requests = 0
    /\ prompted = FALSE
    /\ answer = ""
    /\ auto_seen = FALSE
    /\ reprompts = 0
    /\ ended = ""
    /\ final_text = ""
    /\ all_tool_replies = TRUE

\* trim_history(messages), in place; the result of the first call is kept
TrimCall ==
    /\ probe.op = "trim_history"
    /\ probe.calls < 2
    /\ messages' = trim_history(messages)
    /\ probe' = [probe EXCEPT !.calls = @ + 1,
                              !.first = IF probe.calls = 0 THEN messages' ELSE @]
    /\ UNCHANGED <<auto_approve, pc, response, iteration, tc_i, turns, calls_seen,
                   requests, prompted, answer, auto_seen, reprompts, ended,
                   final_text, all_tool_replies>>

NextTrim == TrimCall

SpecTrim == InitTrim /\ [][NextTrim]_vars

(***************************************************************************)
(* Properties                                                              *)
(***************************************************************************)
\* the tier of the call in hand
CurRisk == get_tool_risk(func_name)

C2_SafeNeverPrompts ==
    (pc \in {"prompt", "execute"} /\ CurRisk = "safe")
        => (pc = "execute" /\ ~prompted /\ answer = "")

\* a safe call is about to run while auto_approve is not set
C2_Witness ==
    /\ pc = "execute"
    /\ CurRisk = "safe"
    /\ ~auto_seen
    /\ ~auto_approve

\* C3: a moderate-tier call is approved without a prompt exactly when
\* auto_approve was set as the call was classified; otherwise the prompt is
\* shown, and the call runs only after an allow or always.
C3_ModerateFollowsFlag ==
    (pc \in {"prompt", "execute"} /\ CurRisk = "moderate")
        => /\ prompted <=> ~auto_seen
           /\ (pc = "execute" /\ prompted) => answer \in {"allow", "always"}

\* a moderate call is about to run without a prompt, auto_approve being set
C3_Witness ==
    /\ pc = "execute"
    /\ CurRisk = "moderate"
    /\ auto_seen
    /\ ~prompted

\* C4: whatever the handler does, execute_tool returns a text: the step from
\* execute_tool appends that text as one tool message, the turn goes on, and
\* the next step is the next call of the batch or, after the last call, the
\* next request.
C4_HandlerFailureContained ==
    [][pc = "execute" =>
         /\ ended' = ""
         /\ Len(messages') = Len(messages) + 1
         /\ SubSeq(messages', 1, Len(messages)) = messages
         /\ Last(messages').role = "tool"
         /\ Last(messages').content # ""
         /\ IF tc_i < Len(response.tool_calls)
            THEN pc' = "confirm" /\ tc_i' = tc_i + 1 /\ requests' = requests
            ELSE pc' = "tool_chat" /\ requests' = requests + 1]_vars

\* the handler of the last call of a batch raised an exception that is no
\* TypeError: its error text is the last tool message and the next request
\* is out
C4_Witness ==
    /\ pc = "tool_chat"
    /\ Last(messages).role = "tool"
    /\ StartsWith(Last(messages).content, "ERROR executing 'pkg_install': ")

\* C5: a turn in which every reply carried a tool call and no request
\* failed ends after exactly MAX_TOOL_ITERATIONS requests, the first one
\* included, with the advisory text as its answer.
C5_CapAfterMaxRequests ==
    (ended \in {"plain", "cap"} /\ all_tool_replies)
        => (requests = MAX_TOOL_ITERATIONS /\ final_text = CapText)

\* C5, amended: such a turn ends at the cap, and a turn that ends at the cap
\* has run exactly MAX_TOOL_ITERATIONS batches of tool calls, for which
\* MAX_TOOL_ITERATIONS + 1 requests were sent (the first one and one after
\* each batch), and has the advisory text as its answer.
C5_CapAfterMaxBatches ==
    /\ (ended \in {"plain", "cap"} /\ all_tool_replies) => ended = "cap"
    /\ ended = "cap"
         => /\ iteration = MAX_TOOL_ITERATIONS
            /\ requests = MAX_TOOL_ITERATIONS + 1
            /\ final_text = CapText

\* a turn of tool-call replies only has ended at the cap
C5_Witness ==
    /\ pc = "input"
    /\ ended = "cap"
    /\ all_tool_replies
    /\ Last(messages).content = CapText

\* C6: whenever the reply in hand carries no tool call, its content becomes
\* the answer of the turn, at every round trip of the turn.
C6_PlainReplyIsAnswer ==
    [][(pc = "inspect" /\ response.tool_calls = <<>>)
          => (ended' = "plain" /\ final_text' = response.content)]_vars

\* C7: a turn that a failed request ended, the first request or a follow-up
\* one, leaves an assistant message with the error text as the last entry
\* of the transcript.
C7_RequestErrorAppended ==
    [][(pc \in {"chat", "tool_chat"} /\ ended' \in {"first_error", "iter_error"})
          => /\ pc' = "input"
             /\ Len(messages') = Len(messages) + 1
             /\ Last(messages').role = "assistant"
             /\ Contains(Last(messages').content, RequestErrorText)]_vars

\* the longest marker of the texts the handlers of ExecEnvs produce (their
\* lengths have at most six digits)
MarkerBound == Len(TruncationMarker(10 * MAX_OUTPUT_CHARS))

\* C8: every text execute_tool returns, a handler's result or one of its own
\* error texts, is at most MAX_OUTPUT_CHARS characters plus the truncation
\* marker long.
C8_EveryResultTruncated ==
    (probe.op = "execute_tool" /\ probe.done)
        => Len(probe.outcome.text) <= MAX_OUTPUT_CHARS + MarkerBound

\* C9: _truncate returns a text of at most MAX_OUTPUT_CHARS characters
\* unchanged; of a longer text it returns the first MAX_OUTPUT_CHARS
\* characters followed by the marker, which states the length of the text,
\* so the result is MAX_OUTPUT_CHARS plus the length of the marker long.
C9_TruncateContract ==
    (probe.op = "_truncate" /\ probe.done)
        => IF Len(probe.text) <= MAX_OUTPUT_CHARS
           THEN probe.result = probe.text
           ELSE LET marker == SubSeq(probe.result, MAX_OUTPUT_CHARS + 1,
                                     Len(probe.result))
                IN  /\ SubSeq(probe.result, 1, MAX_OUTPUT_CHARS)
                         = SubSeq(probe.text, 1, MAX_OUTPUT_CHARS)
                    /\ marker = "\n\n... [truncated, " \o ToString(Len(probe.text))
                                  \o " total chars]"
                    /\ Len(probe.result) = MAX_OUTPUT_CHARS + Len(marker)

\* a text of six digits of length was cut
C9_Witness ==
    /\ probe.op = "_truncate"
    /\ probe.done
    /\ Len(probe.text) = 100001
    /\ Len(probe.result) = MAX_OUTPUT_CHARS + 37

\* C10: for a name that is no key of the handler table execute_tool invokes
\* no handler, raises nothing and returns an error text that holds the name
\* (in quotes) and the name of every registered tool.
C10_UnknownToolReported ==
    (/\ probe.op = "execute_tool"
     /\ probe.done
     /\ \A i \in 1..Len(HandlerNames) : HandlerNames[i] # probe.name)
        => /\ ~probe.outcome.raised
           /\ ~probe.outcome.called
           /\ ~probe.outcome.acted
           /\ StartsWith(probe.outcome.text, "ERROR: Unknown tool")
           /\ Contains(probe.outcome.text, "'" \o probe.name \o "'")
           /\ \A i \in 1..Len(HandlerNames) :
                 Contains(probe.outcome.text, HandlerNames[i])

\* execute_tool has answered a call of a name that is not registered
C10_Witness ==
    /\ probe.op = "execute_tool"
    /\ probe.done
    /\ probe.name = "no_such_tool"
    /\ probe.outcome.text # ""

\* the call of the probe names a registered tool
ProbeRegistered ==
    \E i \in 1..Len(HandlerNames) : HandlerNames[i] = probe.name

BadArgumentsPrefix(name) == "ERROR: Bad arguments for tool '" \o name \o "': "

\* C11: when the argument mapping lacks a required key of the tool or holds a
\* key the tool does not declare, execute_tool returns the bad-arguments
\* error text for that tool and the handler's action is not performed.
C11_MismatchIsBadArguments ==
    (/\ probe.op = "execute_tool"
     /\ probe.done
     /\ ProbeRegistered
     /\ \/ RequiredParams(probe.name) \ DOMAIN probe.arguments # {}
        \/ DOMAIN probe.arguments \ DeclaredParams(probe.name) # {})
        => /\ StartsWith(probe.outcome.text, BadArgumentsPrefix(probe.name))
           /\ ~probe.outcome.acted

\* C11, amended: when the mapping lacks a required key, execute_tool returns
\* the bad-arguments error text for that tool and the handler's action is not
\* performed; when no required key is missing, a key the tool does not
\* declare is ignored: the outcome is that of the same call without it, and
\* it is not the bad-arguments text.
C11_MissingKeyIsBadArguments ==
    (probe.op = "execute_tool" /\ probe.done /\ ProbeRegistered)
        => IF RequiredParams(probe.name) \ DOMAIN probe.arguments # {}
           THEN /\ ~probe.outcome.raised
                /\ StartsWith(probe.outcome.text, BadArgumentsPrefix(probe.name))
                /\ ~probe.outcome.acted
           ELSE /\ probe.outcome =
                     execute_tool(probe.name,
                                  [k \in DOMAIN probe.arguments
                                           \cap DeclaredParams(probe.name)
                                     |-> probe.arguments[k]],
                                  probe.env)
                /\ ~StartsWith(probe.outcome.text, BadArgumentsPrefix(probe.name))

\* write_file was called without its content: the bad-arguments text came
\* back and nothing was written
C11_Witness ==
    /\ probe.op = "execute_tool"
    /\ probe.done
    /\ probe.name = "write_file"
    /\ "content" \notin DOMAIN probe.arguments
    /\ probe.env.fail = "none"
    /\ StartsWith(probe.outcome.text, BadArgumentsPrefix("write_file"))
    /\ ~probe.outcome.acted

\* a payload that is a text which is no JSON, a text which is JSON but no
\* object, or a value that is neither a text nor a mapping
UnusablePayload(payload) ==
    \/ payload.type = "str" /\ json_loads(payload.value).type # "dict"
    \/ payload.type \notin {"str", "dict"}

\* a call of a batch is in hand
InCall == pc \in {"confirm", "prompt", "execute"}

\* the step ends the call in hand: exactly one tool message is appended, and
\* the next call of the batch or, after the last one, the next request follows
CallResolved ==
    /\ ended' = ""
    /\ Len(messages') = Len(messages) + 1
    /\ SubSeq(messages', 1, Len(messages)) = messages
    /\ Last(messages').role = "tool"
    /\ IF tc_i < Len(response.tool_calls)
       THEN pc' = "confirm" /\ tc_i' = tc_i + 1
       ELSE pc' = "tool_chat"

\* the step stays in the call in hand and appends nothing
CallPending ==
    /\ pc' \in {"prompt", "execute"}
    /\ tc_i' = tc_i
    /\ response' = response
    /\ messages' = messages
    /\ ended' = ""

\* C12: for a payload that is a text which does not parse as JSON, a text
\* that parses to a JSON value which is no object, or a value that is neither
\* a text nor a mapping, the arguments confirmed and dispatched are the empty
\* mapping, and the call is processed like any other: unless the user
\* interrupts the prompt, one tool message is appended for it and the batch
\* goes on.
C12_UnusablePayloadIsEmpty ==
    [][(InCall /\ UnusablePayload(ArgumentsOf(CurCall)))
          => /\ func_args = NoArgs
             /\ \/ CallPending
                \/ CallResolved
                \/ pc = "prompt" /\ ended' = "interrupt"]_vars

\* the three kinds of payload have each gone through a call: write_file with
\* a text that is no JSON got the bad-arguments text, list_directory with a
\* JSON list ran on its defaults, and a call whose payload is None is at
\* execute_tool
C12_Witness ==
    /\ pc = "execute"
    /\ ArgumentsOf(CurCall) = OtherPayload("None")
    /\ \E i \in 1..Len(messages) :
          /\ messages[i].role = "tool"
          /\ StartsWith(messages[i].content, BadArgumentsPrefix("write_file"))
    /\ \E i \in 1..Len(messages) :
          /\ messages[i].role = "tool"
          /\ messages[i].content = "(empty directory)"

\* the typed lines that confirm_tool_call reads as one of choices
LinesRead(choices) ==
    { line \in PromptInputs : ChoiceOf[line] \in choices }

\* the typed lines read as a denial, as always, and as none of the three
DenyLines == LinesRead({"n", "no"})

AlwaysLines == LinesRead({"a", "always"})

InvalidLines == PromptInputs \ LinesRead({"y", "yes", "n", "no", "a", "always"})

\* C13: when the user answers deny (n or no) at the prompt, the handler of
\* the call is not invoked: the step appends exactly one tool message, the
\* fixed denial text, leaves auto_approve alone, and goes on with the next
\* call of the batch or, after the last call, with the next request.
C13_DenialIsOneToolMessage ==
    [][pc = "prompt" => \A line \in DenyLines :
          PromptAnswer(line)
            => /\ CallResolved
               /\ Last(messages') = Message("tool", DeniedText, <<>>)
               /\ auto_approve' = auto_approve
               /\ iteration' = (IF tc_i < Len(response.tool_calls)
                                 THEN iteration ELSE iteration + 1)
               /\ requests' = (IF tc_i < Len(response.tool_calls)
                                THEN requests ELSE requests + 1)]_vars

\* the first call of a batch of two was denied and the second call is in
\* hand
C13_Witness ==
    /\ pc = "confirm"
    /\ tc_i = 2
    /\ Last(messages) = Message("tool", DeniedText, <<>>)

\* the texts the tool message of a call can hold: the denial, or what
\* execute_tool returns for it
ResultsOf(tc) ==
    {DeniedText} \cup
      { execute_tool(NameOf(tc), ParseArguments(ArgumentsOf(tc)),
                     env).text : env \in LoopEnvs(NameOf(tc)) }

\* the tool messages appended so far for the batch in hand
BatchDone ==
    IF pc = "tool_chat" THEN Len(response.tool_calls) ELSE tc_i - 1

\* C14: for a reply of k tool calls the assistant message with the list of
\* the k calls is appended first; while call i is classified, confirmed or
\* dispatched exactly i - 1 tool messages follow it, the j-th being the
\* result or the denial of the j-th call; the next request is out only when
\* all k follow it.
C14_BatchInOrder ==
    (pc \in {"confirm", "prompt", "execute", "tool_chat"})
        => LET k == Len(response.tool_calls)
               a == Len(messages) - BatchDone
           IN  /\ k >= 1
               /\ a >= 2
               /\ messages[a].role = "assistant"
               /\ Len(messages[a].tool_calls) = k
               /\ messages[a].tool_calls = _serialize_tool_calls(response.tool_calls)
               /\ \A j \in 1..BatchDone :
                     /\ messages[a + j].role = "tool"
                     /\ messages[a + j].content \in ResultsOf(response.tool_calls[j])

\* a batch of two calls is done and the next request is out: the first call,
\* write_file, was denied and the second, read_file, has run
C14_Witness ==
    /\ pc = "tool_chat"
    /\ Len(response.tool_calls) = 2
    /\ NameOf(response.tool_calls[1]) = "write_file"
    /\ NameOf(response.tool_calls[2]) = "read_file"
    /\ messages[Len(messages) - 1].content = DeniedText
    /\ StartsWith(Last(messages).content, "[1 lines]")

\* C15: after any sequence of user turns, tool batches, trims of the
\* history, slash commands and interrupts, the first element of the
\* transcript is the system message with the configured system prompt; no
\* step removes or changes it, and /clear leaves an identical one.
C15_SystemMessageFirst ==
    /\ Len(messages) >= 1
    /\ messages[1] = Message("system", SYSTEM_PROMPT, <<>>)
    /\ \A i \in 2..Len(messages) : messages[i].role # "system"

\* the second turn has started and the trim has evicted the first turn's user
\* message: the system message is followed by the answer of the first turn
C15_Witness ==
    /\ pc = "chat"
    /\ turns = 2
    /\ Len(messages) = MAX_HISTORY * 2 + 1
    /\ messages[1].role = "system"
    /\ messages[2].role \in {"assistant", "tool"}

\* C16: when a turn ends with a reply without tool calls or at the cap of
\* iterations, the answer (the content of the reply, or the advisory text) is
\* appended as one assistant message exactly when it is not empty, and
\* chat_loop is back at its input; an empty answer appends nothing.
C16_AnswerAppendedUnlessEmpty ==
    [][(pc = "inspect" /\ ended' \in {"plain", "cap"})
          => /\ pc' = "input"
             /\ final_text' = (IF ended' = "cap" THEN CapText ELSE response.content)
             /\ IF final_text' # ""
                THEN messages' = Append(messages,
                                        Message("assistant", final_text', <<>>))
                ELSE messages' = messages]_vars

\* a turn has ended on an empty reply that followed a batch: the tool message
\* is still the last entry of the transcript
C16_Witness ==
    /\ pc = "input"
    /\ ended = "plain"
    /\ final_text = ""
    /\ Last(messages).role = "tool"

\* C17: the answer always (a or always) at the prompt sets auto_approve and
\* approves the call in hand; auto_approve then stays set, through the later
\* calls of the batch, the later round trips and the later turns, until
\* /yolo toggles it; and while it is set a moderate-tier call goes to
\* execute_tool without a prompt.
C17_AlwaysSetsFlagForSession ==
    [][/\ pc = "prompt" => \A line \in AlwaysLines :
            PromptAnswer(line)
              => /\ auto_approve'
                 /\ pc' = "execute"
                 /\ tc_i' = tc_i /\ response' = response
                 /\ messages' = messages
       /\ (auto_approve /\ ~auto_approve') => SlashYolo
       /\ (pc = "confirm" /\ auto_approve /\ CurRisk = "moderate")
            => (pc' = "execute" /\ ~prompted' /\ auto_approve')]_vars

\* always was answered for a call that was classified while auto_approve was
\* not set: the call is at execute_tool and the flag is set
C17_Witness ==
    /\ pc = "execute"
    /\ answer = "always"
    /\ prompted
    /\ ~auto_seen
    /\ auto_approve

\* C18: an answer at the prompt that, stripped and lower-cased, is none of
\* y, yes, n, no, a and always does not resolve the call: nothing is
\* dispatched, no message is appended, auto_approve keeps its value, the hint
\* is printed and the prompt is read again for the same call.
C18_InvalidAnswerReprompts ==
    [][pc = "prompt" => \A line \in InvalidLines :
          PromptAnswer(line)
            => /\ pc' = "prompt"
               /\ reprompts' = reprompts + 1
               /\ messages' = messages
               /\ auto_approve' = auto_approve
               /\ tc_i' = tc_i /\ response' = response
               /\ prompted' /\ answer' = ""
               /\ iteration' = iteration /\ requests' = requests
               /\ ended' = ""]_vars

\* the prompt of a dangerous call is read again after an answer that was none
\* of the three: no tool message follows the assistant message of the batch
C18_Witness ==
    /\ pc = "prompt"
    /\ reprompts = 1
    /\ CurRisk = "dangerous"
    /\ tc_i = 1
    /\ Last(messages).role = "assistant"
    /\ answer = ""

\* the name of the call in hand has no entry in the registry
CurUnknown ==
    /\ func_name # NoName
    /\ func_name \notin DOMAIN TOOL_RISK
    /\ \A i \in 1..Len(HandlerNames) : HandlerNames[i] # func_name

\* C19: a requested name that is not in the registry is handled as a
\* moderate-tier call: classified with auto_approve unset it goes to the
\* prompt and is dispatched only after allow or always, classified with
\* auto_approve set it is dispatched without a prompt; once dispatched, its
\* tool message is the unknown-tool error text.
C19_UnknownNameIsModerate ==
    [][(InCall /\ CurUnknown)
          => /\ pc = "confirm"
                  => IF auto_approve
                     THEN pc' = "execute" /\ ~prompted'
                     ELSE pc' = "prompt" /\ prompted' /\ messages' = messages
             /\ pc = "execute"
                  => /\ prompted <=> ~auto_seen
                     /\ prompted => answer \in {"allow", "always"}
                     /\ CallResolved
                     /\ StartsWith(Last(messages').content,
                                   "ERROR: Unknown tool '" \o func_name \o "'")]_vars

\* the call of an unregistered name was allowed at the prompt and its tool
\* message, the unknown-tool text, is the last entry
C19_Witness ==
    /\ pc = "tool_chat"
    /\ NameOf(response.tool_calls[Len(response.tool_calls)]) = "no_such_tool"
    /\ ~auto_approve
    /\ StartsWith(Last(messages).content, "ERROR: Unknown tool 'no_such_tool'")

C21_InterruptKeepsTranscript ==
    [][/\ (ChatInterrupt \/ ToolChatInterrupt \/ PromptInterrupt)
            => /\ pc' = "input"
               /\ ended' = "interrupt"
               /\ messages' = messages
               /\ auto_approve' = auto_approve
               /\ tc_i' = 0
       /\ ended = "interrupt"
            => /\ pc = "input"
               /\ turns' # turns
                    => \E text \in UserTexts :
                         /\ messages' = trim_history(
                                Append(messages, Message("user", text, <<>>)))
                         /\ pc' = "chat"
                         /\ requests' = 1
                         /\ ended' = ""]_vars

\* the turn that followed an interrupt at the prompt of the first call of a
\* batch is waiting for its first reply: the assistant message of that batch
\* is still there, before the new user message
C21_Witness ==
    /\ pc = "chat"
    /\ turns = 2
    /\ Len(messages) = 3
    /\ messages[2].role = "assistant"
    /\ messages[2].tool_calls # <<>>
    /\ messages[3].role = "user"

\* C22: a request that fails ends the turn: the step leaves the messages
\* appended before in place, sends no request and takes no call in hand;
\* after it chat_loop is at its input, where no request is sent and no call
\* is confirmed or dispatched until the next user turn starts.
C22_NoRetryAfterFailure ==
    [][/\ (ChatFail \/ ToolChatFail)
            => /\ pc' = "input"
               /\ ended' \in {"first_error", "iter_error"}
               /\ requests' = requests
               /\ tc_i' = 0
               /\ SubSeq(messages', 1, Len(messages)) = messages
       /\ ended \in {"first_error", "iter_error"}
            => /\ pc = "input"
               /\ turns' = turns => (requests' = requests /\ pc' = "input")]_vars

\* a follow-up request has failed: the tool message of the batch is still
\* there, before the error text
C22_Witness ==
    /\ pc = "input"
    /\ ended = "iter_error"
    /\ requests = 2
    /\ messages[Len(messages) - 1].role = "tool"
    /\ Last(messages).content = IterationErrorText

\* C23: a tool call without a function entry or without a function name is
\* handled like a call of an unknown tool: taking it in hand leads to its
\* confirmation or its dispatch, the turn goes on, and the call is resolved
\* by one tool message before the next call or the next request.
C23_NamelessCallIsUnknownTool ==
    [][(pc = "confirm" /\ NameOf(CurCall) = NoName)
          => /\ pc' \in {"prompt", "execute"}
             /\ ended' = ""
             /\ response' = response]_vars

(***************************************************************************)
(* The session under the scheduling of a sequential program                *)
(***************************************************************************)
\* a step of handle_user_message or of what it calls
TurnStep == pc # "input" /\ Next

\* inside handle_user_message the interpreter runs the next statement; a
\* request, a handler call and a prompt are the places where it waits, and
\* each of them returns: a step of the turn that stays possible is taken
SpecFair == Spec /\ WF_vars(TurnStep)

\* the index of the last user message of the transcript, 0 without one
LastUser ==
    LET us == { i \in 1..Len(messages) : messages[i].role = "user" }
    IN  IF us = {} THEN 0 ELSE CHOOSE i \in us : \A j \in us : j <= i

\* the batches of the turn: the assistant messages carrying tool calls that
\* were appended after its user message
BatchesOfTurn ==
    Cardinality({ i \in (LastUser + 1)..Len(messages) :
                    messages[i].role = "assistant" /\ messages[i].tool_calls # <<>> })

\* C24: a turn never runs more than MAX_TOOL_ITERATIONS batches, and, every
\* request, handler call and prompt returning, every turn that was started
\* returns control to chat_loop, whatever the replies are.
C24_TurnReturns ==
    /\ [](BatchesOfTurn <= MAX_TOOL_ITERATIONS)
    /\ (pc # "input") ~> (pc = "input")

\* a turn that ran MAX_TOOL_ITERATIONS batches has returned with the
\* advisory text
C24_Witness ==
    /\ pc = "input"
    /\ ended = "cap"
    /\ BatchesOfTurn = MAX_TOOL_ITERATIONS
    /\ Last(messages).content = CapText

\* the tool messages of the turn: those appended after its user message
ToolMessagesOfTurn ==
    Cardinality({ i \in (LastUser + 1)..Len(messages) : messages[i].role = "tool" })

\* C25: process_tool_calls starts every turn with the counter at zero, and
\* inside it the counter is the number of batches of this turn that were
\* processed to their end, whatever their sizes: all batches of the turn
\* between two batches, all but the one in hand inside a batch. What the
\* turns before have used does not count.
C25_CounterPerTurn ==
    [][/\ (pc = "chat" /\ pc' = "inspect") => iteration' = 0
       /\ pc' \in {"inspect", "tool_chat"} => iteration' = BatchesOfTurn'
       /\ pc' \in {"confirm", "prompt", "execute"}
            => iteration' = BatchesOfTurn' - 1]_vars

\* the second turn has processed MAX_TOOL_ITERATIONS batches after the first
\* turn had processed one: more calls were seen in the session than this
\* turn has resolved
C25_Witness ==
    /\ turns = 2
    /\ pc = "tool_chat"
    /\ iteration = MAX_TOOL_ITERATIONS
    /\ BatchesOfTurn = MAX_TOOL_ITERATIONS
    /\ calls_seen > ToolMessagesOfTurn

\* C26: trim_history leaves a transcript of at most 2*MAX_HISTORY+1 messages
\* as it is; of a longer one it keeps element 0 and the last 2*MAX_HISTORY
\* messages in their order, 2*MAX_HISTORY+1 messages in all, the last of
\* them the last of the transcript; a second call changes nothing.
C26_TrimKeepsWindow ==
    (probe.op = "trim_history" /\ probe.calls >= 1)
      => LET o == probe.original
             n == Len(o)
             w == 2 * MAX_HISTORY
         IN  /\ n <= w + 1 => messages = o
             /\ n > w + 1
                  => /\ Len(messages) = w + 1
                     /\ messages[1] = o[1]
                     /\ \A k \in 1..w : messages[1 + k] = o[n - w + k]
                     /\ Last(messages) = Last(o)
             /\ probe.calls = 2 => messages = probe.first

\* a transcript two messages too long, ending with a tool message after an
\* assistant message, was trimmed twice
C26_Witness ==
    /\ probe.op = "trim_history"
    /\ probe.calls = 2
    /\ Len(probe.original) = 2 * MAX_HISTORY + 3
    /\ probe.original[2] # probe.original[Len(probe.original) - 2 * MAX_HISTORY + 1]
    /\ Len(messages) = 2 * MAX_HISTORY + 1
    /\ Last(messages).role = "tool"
    /\ messages[Len(messages) - 1].role = "assistant"

\* C27: whenever a request is out, the first of a turn or a follow-up after a
\* batch, the transcript it carries holds at most 2*MAX_HISTORY+1 messages.
C27_RequestWithinWindow ==
    pc \in {"chat", "tool_chat"} => Len(messages) <= 2 * MAX_HISTORY + 1

\* C28: a line that chat_loop handles itself (a slash command, an empty
\* line) sends no request and starts no turn; it leaves the transcript and
\* auto_approve as they are, or (/clear) replaces the transcript by the
\* system message alone and leaves auto_approve, or (/yolo) negates
\* auto_approve, so that two of them restore it, and leaves the transcript.
\* The first request of the turn after /clear carries the system message and
\* the new user message, nothing else.
C28_SlashCommandsFrame ==
    [][/\ (pc = "input" /\ pc' = "input")
            => /\ requests' = requests
               /\ turns' = turns
               /\ calls_seen' = calls_seen
               /\ \/ messages' = messages /\ auto_approve' = auto_approve
                  \/ messages' = <<SystemMessage>> /\ auto_approve' = auto_approve
                  \/ /\ messages' = messages
                     /\ auto_approve' = ~auto_approve
                     /\ (~auto_approve') = auto_approve
       /\ (pc = "input" /\ messages = <<SystemMessage>> /\ pc' = "chat")
            => /\ \E text \in UserTexts :
                    messages' = <<SystemMessage, Message("user", text, <<>>)>>
               /\ requests' = 1
               /\ auto_approve' = auto_approve]_vars

\* the first request of the second turn is out with the system message and
\* the user message only: /clear was given after the first turn, and the
\* flag set in the first turn is still set
C28_Witness ==
    /\ pc = "chat"
    /\ turns = 2
    /\ calls_seen > 0
    /\ Len(messages) = 2
    /\ messages[1] = SystemMessage
    /\ messages[2].role = "user"
    /\ auto_approve

\* the typed lines that are read neither as allow nor as always
UnapprovingLines == PromptInputs \ LinesRead({"y", "yes", "a", "always"})

\* C29: the call in hand is handed to execute_tool only from its own
\* confirmation: without a prompt when its tier and the flag approve it, or
\* from its prompt; no line other than allow or always leads from the prompt
\* to execute_tool, and an interrupt or the end of input at the prompt ends
\* the turn with the transcript as it was. execute_tool runs once for the
\* call: its step ends the call (one tool message, then the next call or the
\* next request) or the turn.
C29_HandlerOncePerApprovedCall ==
    [][/\ pc' = "execute"
            => /\ pc \in {"confirm", "prompt"}
               /\ tc_i' = tc_i
               /\ response' = response
               /\ messages' = messages
               /\ pc = "confirm"
                    => /\ ~prompted'
                       /\ \/ CurRisk = "safe"
                          \/ CurRisk = "moderate" /\ auto_approve
               /\ pc = "prompt" => prompted /\ prompted'
       /\ pc = "prompt"
            => /\ \A line \in UnapprovingLines :
                    PromptAnswer(line)
                      => /\ pc' # "execute"
                         /\ \/ messages' = messages /\ pc' = "prompt"
                            \/ /\ CallResolved
                               /\ Last(messages') = Message("tool", DeniedText, <<>>)
               /\ PromptInterrupt => (pc' = "input" /\ messages' = messages)
       /\ pc = "execute"
            => /\ pc' # "execute"
               /\ ended' = "raised" \/ CallResolved]_vars

\* the second call of a batch is handed to execute_tool after its own
\* prompt, the first call of the batch was denied
C29_Witness ==
    /\ pc = "execute"
    /\ tc_i = 2
    /\ prompted
    /\ answer = "allow"
    /\ ~auto_approve
    /\ Last(messages) = Message("tool", DeniedText, <<>>)

\* the tool messages of a transcript are paired with the tool calls: every
\* tool message belongs to the run of tool messages that follows an
\* assistant message carrying tool calls, and that run has one message per
\* call
WellPaired(msgs) ==
    /\ \A i \in 1..Len(msgs) :
          msgs[i].role = "tool"
            => \E a \in 1..(i - 1) :
                  /\ msgs[a].role = "assistant"
                  /\ msgs[a].tool_calls # <<>>
                  /\ \A j \in (a + 1)..i : msgs[j].role = "tool"
    /\ \A a \in 1..Len(msgs) :
          (msgs[a].role = "assistant" /\ msgs[a].tool_calls # <<>>)
            => LET k == Len(msgs[a].tool_calls)
               IN  /\ a + k <= Len(msgs)
                   /\ \A j \in (a + 1)..(a + k) : msgs[j].role = "tool"
                   /\ a + k + 1 <= Len(msgs) => msgs[a + k + 1].role # "tool"

\* C30: whenever a request is out, the transcript it carries is well paired.
C30_RequestsWellPaired ==
    pc \in {"chat", "tool_chat"} => WellPaired(messages)

====
